---- MODULE Spec2Model ----
(***************************************************************************)
(* fast-version: a three-component version (major, minor, patch), its      *)
(* string parser and renderer, its ordering, and version requirements      *)
(* (a box of six integers) with their normalisation and containment test.  *)
(*                                                                         *)
(* Every operation of the crate is a pure function.  Each is an operator   *)
(* here, translated arm by arm from the Rust source, and each              *)
(* specification below is a driver that draws the inputs from bounded sets *)
(* and applies the operations.                                             *)
(*                                                                         *)
(* u64 is modelled as 0..U64_MAX with U64_MAX = 2^Width - 1: TLC's         *)
(* integers are 32 bits wide, so the width is a bound of the model.        *)
(***************************************************************************)
EXTENDS Integers, Sequences, FiniteSets

\* ------------------------------------------------------------ bounds
\* Bits of the modelled u64.
Width == 4
\* Longest input string drawn for the parser.
MaxLen == 6

\* ------------------------------------------------------------ u64
\* u64::MAX / u64::MIN (version_req.rs: const MAX, const MIN in star()).
U64_MAX == 2^Width - 1
U64_MIN == 0
U64 == U64_MIN..U64_MAX

\* u64::saturating_add as a wrapping addition (mutation of saturating_add).
wrapping_add(x, y) == (x + y) % (U64_MAX + 1)
\* u64::saturating_add: the sum, or u64::MAX when it overflows.
saturating_add(x, y) == IF x + y > U64_MAX THEN U64_MAX ELSE x + y

\* u64::saturating_sub: the difference, or 0 when it underflows.
saturating_sub(x, y) == IF x < y THEN U64_MIN ELSE x - y

\* ------------------------------------------------------------ Version
\* Version::new
Version_new(major, minor, patch) ==
    [major |-> major, minor |-> minor, patch |-> patch]

\* std::cmp::Ordering
Less == "Less"
Equal == "Equal"
Greater == "Greater"

\* Option::Some
Some(x) == [kind |-> "Some", value |-> x]
\* Result::Ok / Result::Err
Ok(x) == [kind |-> "Ok", value |-> x]
Err(e) == [kind |-> "Err", error |-> e]

\* u64::cmp, as Version::cmp calls it on one component
u64_cmp(a, b) == IF a < b THEN Less ELSE IF a > b THEN Greater ELSE Equal

\* u64::partial_cmp, as Version::partial_cmp calls it on one component
u64_partial_cmp(a, b) == Some(u64_cmp(a, b))

\* partial_cmp that returns after the minor comparison (mutation of
\* partial_cmp: the patch component is never looked at).
partial_cmp_no_patch(self, other) ==
    LET major_ordering == u64_partial_cmp(self.major, other.major)
    IN  IF major_ordering.kind = "Some" /\ major_ordering.value # Equal
        THEN Some(major_ordering.value)
        ELSE u64_partial_cmp(self.minor, other.minor)
\* impl PartialOrd for Version: partial_cmp
partial_cmp(self, other) ==
    LET major_ordering == u64_partial_cmp(self.major, other.major)
        minor_ordering == u64_partial_cmp(self.minor, other.minor)
    IN  IF major_ordering.kind = "Some" /\ major_ordering.value # Equal
        THEN Some(major_ordering.value)
        ELSE IF minor_ordering.kind = "Some" /\ minor_ordering.value # Equal
        THEN Some(minor_ordering.value)
        ELSE u64_partial_cmp(self.patch, other.patch)

\* impl Ord for Version: cmp
cmp(self, other) ==
    LET major_ordering == u64_cmp(self.major, other.major)
        minor_ordering == u64_cmp(self.minor, other.minor)
    IN  IF major_ordering # Equal THEN major_ordering
        ELSE IF minor_ordering # Equal THEN minor_ordering
        ELSE u64_cmp(self.patch, other.patch)

\* a < b and a > b: PartialOrd's provided lt and gt, decided by partial_cmp
lt(self, other) == partial_cmp(self, other) = Some(Less)
gt(self, other) == partial_cmp(self, other) = Some(Greater)
\* a == b: the derived PartialEq, field by field
eq(self, other) ==
    /\ self.major = other.major
    /\ self.minor = other.minor
    /\ self.patch = other.patch

\* ------------------------------------------------------------ strings
\* A string is a sequence of characters, a character a string of length one.
Digits == <<"0", "1", "2", "3", "4", "5", "6", "7", "8", "9">>
IsDigit(c) == \E i \in 1..10 : Digits[i] = c
\* char::to_digit(10) of a decimal digit
to_digit(c) == (CHOOSE i \in 1..10 : Digits[i] = c) - 1

\* str::split('.'): the fields between the separators, in order; a string
\* without separator is one field, and fields may be empty.
RECURSIVE split(_, _)
split(input, sep) ==
    IF \A i \in 1..Len(input) : input[i] # sep
    THEN <<input>>
    ELSE LET i == CHOOSE j \in 1..Len(input) :
                    input[j] = sep /\ \A k \in 1..(j - 1) : input[k] # sep
         IN  <<SubSeq(input, 1, i - 1)>>
             \o split(SubSeq(input, i + 1, Len(input)), sep)

\* The digit loop of u64::from_str: checked_mul(10) then checked_add(digit)
\* from the left; an error at the first non-digit or at the first overflow.
RECURSIVE from_digits(_, _)
from_digits(digits, acc) ==
    IF digits = <<>> THEN Ok(acc)
    ELSE IF ~IsDigit(Head(digits)) THEN Err("InvalidDigit")
    ELSE IF acc * 10 + to_digit(Head(digits)) > U64_MAX THEN Err("PosOverflow")
    ELSE from_digits(Tail(digits), acc * 10 + to_digit(Head(digits)))

\* u64::from_str (core::num): the empty string is an error; a lone sign is an
\* error; one leading '+' is skipped (a '-' is not, u64 being unsigned); the
\* rest goes through the digit loop.
u64_from_str(src) ==
    IF src = <<>> THEN Err("Empty")
    ELSE IF Len(src) = 1 /\ src[1] \in {"+", "-"} THEN Err("InvalidDigit")
    ELSE IF src[1] = "+" THEN from_digits(Tail(src), 0)
    ELSE from_digits(src, 0)

\* new_from_str that parses the fields from the right (mutation of
\* new_from_str: with several bad fields the rightmost is reported).
new_from_str_rightmost(input) ==
    LET splits == split(input, ".")
    IN  IF Len(splits) # 3 THEN Err("FormatWrong")
        ELSE LET major == u64_from_str(splits[1])
                 minor == u64_from_str(splits[2])
                 patch == u64_from_str(splits[3])
             IN  IF patch.kind = "Err" THEN Err("PatchParseError")
                 ELSE IF minor.kind = "Err" THEN Err("MinorParseError")
                 ELSE IF major.kind = "Err" THEN Err("MajorParseError")
                 ELSE Ok(Version_new(major.value, minor.value, patch.value))
\* Version::new_from_str (and FromStr::from_str, which forwards to it)
new_from_str(input) ==
    LET splits == split(input, ".")
    IN  IF Len(splits) # 3 THEN Err("FormatWrong")
        ELSE LET major == u64_from_str(splits[1])
                 minor == u64_from_str(splits[2])
                 patch == u64_from_str(splits[3])
             IN  IF major.kind = "Err" THEN Err("MajorParseError")
                 ELSE IF minor.kind = "Err" THEN Err("MinorParseError")
                 ELSE IF patch.kind = "Err" THEN Err("PatchParseError")
                 ELSE Ok(Version_new(major.value, minor.value, patch.value))

\* enum VersionParseError
VersionParseError ==
    {"FormatWrong", "MajorParseError", "MajorNotFound", "MinorParseError",
     "MinorNotFound", "PatchParseError", "PatchNotFound"}

\* Display for u64, as format!("{}") renders it: the decimal digits, most
\* significant first, "0" for zero.
RECURSIVE u64_to_string(_)
u64_to_string(n) ==
    IF n < 10 THEN <<Digits[n + 1]>>
    ELSE u64_to_string(n \div 10) \o <<Digits[(n % 10) + 1]>>

\* to_string with the components in the order patch, minor, major (mutation
\* of to_string).
to_string_reversed(self) ==
    u64_to_string(self.patch) \o <<".">> \o u64_to_string(self.minor)
        \o <<".">> \o u64_to_string(self.major)
\* impl ToString for Version: format!("{}.{}.{}", major, minor, patch)
to_string(self) ==
    u64_to_string(self.major) \o <<".">> \o u64_to_string(self.minor)
        \o <<".">> \o u64_to_string(self.patch)

\* ------------------------------------------------------------ VersionReq
\* A VersionReq value: the six fields of the struct.
VersionReq(major_lower, minor_lower, patch_lower, major_higher, minor_higher, patch_higher) ==
    [major_lower |-> major_lower, minor_lower |-> minor_lower,
     patch_lower |-> patch_lower, major_higher |-> major_higher,
     minor_higher |-> minor_higher, patch_higher |-> patch_higher]

\* star() with MIN and MAX exchanged (mutation of star).
star_swapped == VersionReq(U64_MAX, U64_MAX, U64_MAX, U64_MIN, U64_MIN, U64_MIN)
\* VersionReq::star, the value of VersionReq::STAR
star == VersionReq(U64_MIN, U64_MIN, U64_MIN, U64_MAX, U64_MAX, U64_MAX)

\* matches as a lexicographic range test (mutation of matches).
matches_lexicographic(self, version) ==
    LET le(a, b) == \/ a[1] < b[1]
                    \/ a[1] = b[1] /\ a[2] < b[2]
                    \/ a[1] = b[1] /\ a[2] = b[2] /\ a[3] <= b[3]
        lo == <<self.major_lower, self.minor_lower, self.patch_lower>>
        hi == <<self.major_higher, self.minor_higher, self.patch_higher>>
        v  == <<version.major, version.minor, version.patch>>
    IN  le(lo, v) /\ le(v, hi)
\* VersionReq::matches
matches(self, version) ==
    LET lower_match == /\ self.major_lower <= version.major
                       /\ self.minor_lower <= version.minor
                       /\ self.patch_lower <= version.patch
        higher_match == /\ self.major_higher >= version.major
                        /\ self.minor_higher >= version.minor
                        /\ self.patch_higher >= version.patch
    IN  lower_match /\ higher_match

\* VersionReq::new_upper_bounded_equal
new_upper_bounded_equal(major, minor, patch) ==
    VersionReq(0, 0, 0, major, minor, patch)

\* VersionReq::new_lower_bounded_equal
new_lower_bounded_equal(major, minor, patch) ==
    VersionReq(major, minor, patch, U64_MAX, U64_MAX, U64_MAX)

\* new_strict with the upper bound left open (mutation of new_strict).
new_strict_open(version) ==
    VersionReq(version.major, version.minor, version.patch,
               U64_MAX, U64_MAX, U64_MAX)
\* VersionReq::new_strict
new_strict(version) ==
    LET major == version.major
        minor == version.minor
        patch == version.patch
    IN  VersionReq(major, minor, patch, major, minor, patch)

\* new_lower_bound whose MinorGreater arm keeps the minor as given
\* (mutation of new_lower_bound: the helper drifting from VersionReq::new).
new_lower_bound_drift(lower_bound) ==
    CASE lower_bound.kind = "MajorGreater" ->
           <<saturating_add(lower_bound.major, 1), 0, 0>>
      [] lower_bound.kind = "MinorGreater" ->
           <<saturating_add(lower_bound.major, 1), lower_bound.minor, 0>>
      [] lower_bound.kind = "PatchGreater" ->
           <<saturating_add(lower_bound.major, 1),
             saturating_add(lower_bound.minor, 1),
             saturating_add(lower_bound.patch, 1)>>
      [] lower_bound.kind = "MajorGreaterEqual" -> <<lower_bound.major, 0, 0>>
      [] lower_bound.kind = "MinorGreaterEqual" ->
           <<lower_bound.major, lower_bound.minor, 0>>
      [] lower_bound.kind = "PatchGreaterEqual" ->
           <<lower_bound.major, lower_bound.minor, lower_bound.patch>>
\* VersionReq::new_lower_bound
new_lower_bound(lower_bound) ==
    CASE lower_bound.kind = "MajorGreater" ->
           LET major_geq == saturating_add(lower_bound.major, 1)
           IN  <<major_geq, 0, 0>>
      [] lower_bound.kind = "MinorGreater" ->
           LET major_geq == saturating_add(lower_bound.major, 1)
               minor_geq == saturating_add(lower_bound.minor, 1)
           IN  <<major_geq, minor_geq, 0>>
      [] lower_bound.kind = "PatchGreater" ->
           LET major_geq == saturating_add(lower_bound.major, 1)
               minor_geq == saturating_add(lower_bound.minor, 1)
               patch_geq == saturating_add(lower_bound.patch, 1)
           IN  <<major_geq, minor_geq, patch_geq>>
      [] lower_bound.kind = "MajorGreaterEqual" -> <<lower_bound.major, 0, 0>>
      [] lower_bound.kind = "MinorGreaterEqual" ->
           <<lower_bound.major, lower_bound.minor, 0>>
      [] lower_bound.kind = "PatchGreaterEqual" ->
           <<lower_bound.major, lower_bound.minor, lower_bound.patch>>

\* VersionReq::new_upper_bound
new_upper_bound(upper_bound) ==
    CASE upper_bound.kind = "MajorLess" ->
           LET major_leq == saturating_sub(upper_bound.major, 1)
           IN  <<major_leq, U64_MAX, U64_MAX>>
      [] upper_bound.kind = "MinorLess" ->
           LET major_leq == saturating_sub(upper_bound.major, 1)
               minor_leq == saturating_sub(upper_bound.minor, 1)
           IN  <<major_leq, minor_leq, U64_MAX>>
      [] upper_bound.kind = "PatchLess" ->
           LET major_leq == saturating_sub(upper_bound.major, 1)
               minor_leq == saturating_sub(upper_bound.minor, 1)
               patch_leq == saturating_sub(upper_bound.patch, 1)
           IN  <<major_leq, minor_leq, patch_leq>>
      [] upper_bound.kind = "MajorLessEqual" ->
           <<upper_bound.major, U64_MAX, U64_MAX>>
      [] upper_bound.kind = "MinorLessEqual" ->
           <<upper_bound.major, upper_bound.minor, U64_MAX>>
      [] upper_bound.kind = "PatchLessEqual" ->
           <<upper_bound.major, upper_bound.minor, upper_bound.patch>>

\* VersionReq::new_compound
new_compound(lower_bound, upper_bound) ==
    LET lo == new_lower_bound(lower_bound)
        hi == new_upper_bound(upper_bound)
    IN  VersionReq(lo[1], lo[2], lo[3], hi[1], hi[2], hi[3])

\* VersionReq::new
VersionReq_new(version_req) ==
    CASE version_req.kind = "Strict" -> new_strict(version_req.version)
      [] version_req.kind = "Compound" ->
           new_compound(version_req.lower, version_req.upper)
      [] version_req.kind = "MajorGreater" ->
           LET major_geq == saturating_add(version_req.major, 1)
           IN  new_lower_bounded_equal(major_geq, 0, 0)
      [] version_req.kind = "MinorGreater" ->
           LET major_geq == saturating_add(version_req.major, 1)
               minor_geq == saturating_add(version_req.minor, 1)
           IN  new_lower_bounded_equal(major_geq, minor_geq, 0)
      [] version_req.kind = "PatchGreater" ->
           LET major_geq == saturating_add(version_req.major, 1)
               minor_geq == saturating_add(version_req.minor, 1)
               patch_geq == saturating_add(version_req.patch, 1)
           IN  new_lower_bounded_equal(major_geq, minor_geq, patch_geq)
      [] version_req.kind = "MajorGreaterEqual" ->
           new_lower_bounded_equal(version_req.major, 0, 0)
      [] version_req.kind = "MinorGreaterEqual" ->
           new_lower_bounded_equal(version_req.major, version_req.minor, 0)
      [] version_req.kind = "PatchGreaterEqual" ->
           new_lower_bounded_equal(version_req.major, version_req.minor,
                                   version_req.patch)
      [] version_req.kind = "MajorLess" ->
           LET major_leq == saturating_sub(version_req.major, 1)
           IN  new_upper_bounded_equal(major_leq, U64_MAX, U64_MAX)
      [] version_req.kind = "MinorLess" ->
           LET major_leq == saturating_sub(version_req.major, 1)
               minor_leq == saturating_sub(version_req.minor, 1)
           IN  new_upper_bounded_equal(major_leq, minor_leq, U64_MAX)
      [] version_req.kind = "PatchLess" ->
           LET major_leq == saturating_sub(version_req.major, 1)
               minor_leq == saturating_sub(version_req.minor, 1)
               patch_leq == saturating_sub(version_req.patch, 1)
           IN  new_upper_bounded_equal(major_leq, minor_leq, patch_leq)
      [] version_req.kind = "MajorLessEqual" ->
           new_upper_bounded_equal(version_req.major, U64_MAX, U64_MAX)
      [] version_req.kind = "MinorLessEqual" ->
           new_upper_bounded_equal(version_req.major, version_req.minor, U64_MAX)
      [] version_req.kind = "PatchLessEqual" ->
           new_upper_bounded_equal(version_req.major, version_req.minor,
                                   version_req.patch)

\* ------------------------------------------------------------ inputs
\* The u64 values the requirement and ordering drivers draw components from:
\* both ends of the range and values between.
Vals == {0, 1, 2, 5, U64_MAX}
\* Components drawn for the lower half of a Compound (saturation end: MAX).
LowerVals == {1, 5, U64_MAX}
\* Components drawn for the upper half of a Compound (saturation end: 0).
UpperVals == {0, 2, U64_MAX}

Versions == {Version_new(a, b, c) : a \in Vals, b \in Vals, c \in Vals}

\* enum VersionReqVariantLowerBound, components from V
LowerBounds(V) ==
    UNION { {[kind |-> k, major |-> a] : a \in V} :
              k \in {"MajorGreater", "MajorGreaterEqual"} }
    \cup UNION { {[kind |-> k, major |-> a, minor |-> b] : a \in V, b \in V} :
              k \in {"MinorGreater", "MinorGreaterEqual"} }
    \cup UNION { {[kind |-> k, major |-> a, minor |-> b, patch |-> c] :
                    a \in V, b \in V, c \in V} :
              k \in {"PatchGreater", "PatchGreaterEqual"} }

\* enum VersionReqVariantUpperBound, components from V
UpperBounds(V) ==
    UNION { {[kind |-> k, major |-> a] : a \in V} :
              k \in {"MajorLess", "MajorLessEqual"} }
    \cup UNION { {[kind |-> k, major |-> a, minor |-> b] : a \in V, b \in V} :
              k \in {"MinorLess", "MinorLessEqual"} }
    \cup UNION { {[kind |-> k, major |-> a, minor |-> b, patch |-> c] :
                    a \in V, b \in V, c \in V} :
              k \in {"PatchLess", "PatchLessEqual"} }

\* enum VersionReqVariant: Strict, Compound and the twelve standalone
\* variants (which carry the names and fields of the two bound enums).
Variants ==
    {[kind |-> "Strict", version |-> v] : v \in Versions}
    \cup {[kind |-> "Compound", lower |-> l, upper |-> u] :
            l \in LowerBounds(LowerVals), u \in UpperBounds(UpperVals)}
    \cup LowerBounds(Vals) \cup UpperBounds(Vals)

\* The characters the parser driver builds its input strings from: digits
\* (with the zero, for leading zeros), the separator, a sign, a letter.
Alphabet == {"0", "1", "7", ".", "+", "a"}

\* The strings of the crate's documentation and tests and of the parsing
\* examples, beside every string over Alphabet of at most MaxLen characters.
DocStrings ==
    { <<"1", ".", "2", ".", "3">>,
      <<"0", ".", "1", ".", "2">>,
      <<"+", "1", ".", "2", ".", "3">>,
      <<"-", "1", ".", "2", ".", "3">>,
      <<" ", "1", ".", "2", ".", "3">>,
      <<"1", ".", "2", ".", "3", " ">>,
      <<"1", ".", "2">>,
      <<"1", ".", "2", ".", "3", ".", "4">>,
      <<"a", ".", "2">>,
      <<"a", ".", "2", ".", "3">>,
      <<"1", ".", "b", ".", "3">>,
      <<"1", ".", "2", ".", "c">>,
      <<"a", ".", "b", ".", "3">>,
      <<"1", ".", "b", ".", "c">>,
      <<"0", "1", ".", "0", "0", "2", ".", "0", "3">>,
      <<"9", "9", "9", ".", "1", ".", "1">> }

Inputs == UNION { [1..n -> Alphabet] : n \in 0..MaxLen } \cup DocStrings

\* Every Version of the modelled u64 range, for the renderer.
AllVersions == {Version_new(a, b, c) : a \in U64, b \in U64, c \in U64}

\* ------------------------------------------------------------ state
None == [kind |-> "None"]
Bool(b) == [kind |-> "Bool", value |-> b]

VARIABLES
    pc,         \* position of the driver
    variant,    \* the VersionReqVariant given to VersionReq::new
    req,        \* the VersionReq built
    version,    \* the Version given to matches, to_string, cmp
    matched,    \* what matches returned
    other,      \* the Version compared with
    ord,        \* what cmp returned
    pord,       \* what partial_cmp returned
    rel,        \* what version < other, version == other, version > other gave
    input,      \* the string given to new_from_str
    rendered,   \* what to_string returned
    parsed      \* what new_from_str returned

vars == <<pc, variant, req, version, matched, other, ord, pord, rel,
          input, rendered, parsed>>

Init ==
    /\ pc = "start"
    /\ variant = None
    /\ req = None
    /\ version = None
    /\ matched = None
    /\ other = None
    /\ ord = None
    /\ pord = None
    /\ rel = None
    /\ input = None
    /\ rendered = None
    /\ parsed = None

\* --- requirements: build one (new or STAR), then test a version against it

\* VersionReq::new(&variant)
New ==
    /\ pc = "start"
    /\ \E vr \in Variants :
         /\ variant' = vr
         /\ req' = VersionReq_new(vr)
    /\ pc' = "built"
    /\ UNCHANGED <<version, matched, other, ord, pord, rel, input, rendered, parsed>>

\* VersionReq::STAR
Star ==
    /\ pc = "start"
    /\ variant' = [kind |-> "STAR"]
    /\ req' = star
    /\ pc' = "built"
    /\ UNCHANGED <<version, matched, other, ord, pord, rel, input, rendered, parsed>>

\* req.matches(&v)
Matches ==
    /\ pc = "built"
    /\ \E v \in Versions :
         /\ version' = v
         /\ matched' = Bool(matches(req, v))
    /\ pc' = "matched"
    /\ UNCHANGED <<variant, req, other, ord, pord, rel, input, rendered, parsed>>

NextReq == New \/ Star \/ Matches

SpecReq == Init /\ [][NextReq]_vars

\* --- ordering: compare two versions with cmp, partial_cmp and the operators

\* a.cmp(&b)
Cmp ==
    /\ pc = "start"
    /\ \E a \in Versions, b \in Versions :
         /\ version' = a
         /\ other' = b
         /\ ord' = cmp(a, b)
    /\ pc' = "cmp"
    /\ UNCHANGED <<variant, req, matched, pord, rel, input, rendered, parsed>>

\* a.partial_cmp(&b), on the same two versions
PartialCmp ==
    /\ pc = "cmp"
    /\ pord' = partial_cmp(version, other)
    /\ pc' = "partial_cmp"
    /\ UNCHANGED <<variant, req, version, matched, other, ord, rel, input,
                   rendered, parsed>>

\* a < b, a == b, a > b, on the same two versions
Compare ==
    /\ pc = "partial_cmp"
    /\ rel' = [lt |-> lt(version, other), eq |-> eq(version, other),
               gt |-> gt(version, other)]
    /\ pc' = "compared"
    /\ UNCHANGED <<variant, req, version, matched, other, ord, pord, input,
                   rendered, parsed>>

NextOrd == Cmp \/ PartialCmp \/ Compare

SpecOrd == Init /\ [][NextOrd]_vars

\* --- strings: parse a string, or render a version and parse the rendering

\* Version::new_from_str(s)
NewFromStr(s) ==
    /\ input' = s
    /\ parsed' = new_from_str(s)
    /\ pc' = "parsed"
    /\ UNCHANGED <<variant, req, version, matched, other, ord, pord, rel, rendered>>

\* v.to_string()
Render ==
    /\ pc = "start"
    /\ \E v \in AllVersions :
         /\ version' = v
         /\ rendered' = to_string(v)
    /\ pc' = "rendered"
    /\ UNCHANGED <<variant, req, matched, other, ord, pord, rel, input, parsed>>

\* Version::from_str on a string of the caller's
ParseInput == pc = "start" /\ \E s \in Inputs : NewFromStr(s)

\* Version::from_str on what to_string returned
ParseRendered == pc = "rendered" /\ NewFromStr(rendered)

NextStr == Render \/ ParseInput \/ ParseRendered

SpecStr == Init /\ [][NextStr]_vars

\* --- every driver together
Next == NextReq \/ NextOrd \/ NextStr

Spec == Init /\ [][Next]_vars

\* ------------------------------------------------------------ properties
Lower(r) == <<r.major_lower, r.minor_lower, r.patch_lower>>
Higher(r) == <<r.major_higher, r.minor_higher, r.patch_higher>>
Triple(v) == <<v.major, v.minor, v.patch>>
Built == pc \in {"built", "matched"}
Min(a, b) == IF a < b THEN a ELSE b
Max(a, b) == IF a > b THEN a ELSE b

GreaterKinds == {"MajorGreater", "MinorGreater", "PatchGreater"}
LessKinds == {"MajorLess", "MinorLess", "PatchLess"}

\* Compound(MinorGreaterEqual{major: 1, minor: 5}, MajorLessEqual{major: 2})
CompoundExample ==
    [kind |-> "Compound",
     lower |-> [kind |-> "MinorGreaterEqual", major |-> 1, minor |-> 5],
     upper |-> [kind |-> "MajorLessEqual", major |-> 2]]

\* C1: matches is a componentwise box test: it returns true exactly when each
\* of the three components of the version lies between the lower and the
\* higher bound of its own component, whatever the box (empty and inverted
\* boxes included).  The requirement built from
\* Compound(MinorGreaterEqual{1, 5}, MajorLessEqual{2}) is the box
\* (1,5,0)..(2,MAX,MAX) and does not match Version(2,0,0).
C1_MatchesIsBoxTest ==
    /\ pc = "matched" =>
         matched = Bool(\A i \in 1..3 :
                          /\ Lower(req)[i] <= Triple(version)[i]
                          /\ Triple(version)[i] <= Higher(req)[i])
    /\ (Built /\ variant = CompoundExample) =>
         /\ Lower(req) = <<1, 5, 0>>
         /\ Higher(req) = <<2, U64_MAX, U64_MAX>>
    /\ (pc = "matched" /\ variant = CompoundExample
          /\ version = Version_new(2, 0, 0)) => matched = Bool(FALSE)

\* C1's case: the example requirement has been tested against Version(2,0,0).
C1_Witness ==
    /\ pc = "matched"
    /\ variant = CompoundExample
    /\ version = Version_new(2, 0, 0)
    /\ matched = Bool(FALSE)

\* C2: the requirement built from Strict(v) matches w if and only if w = v.
C2_StrictMatchesOnlyItself ==
    (pc = "matched" /\ variant.kind = "Strict") =>
        matched = Bool(Triple(version) = Triple(variant.version))

\* C2's case: a strict requirement has been tested against its own version.
C2_Witness ==
    /\ pc = "matched"
    /\ variant.kind = "Strict"
    /\ version = variant.version
    /\ matched = Bool(TRUE)

\* The lower triple C5 states for a Greater variant: each given component
\* becomes min(x + 1, MAX), the components not given are 0.
C5_GreaterLower(b) ==
    CASE b.kind = "MajorGreater" -> <<Min(b.major + 1, U64_MAX), 0, 0>>
      [] b.kind = "MinorGreater" ->
           <<Min(b.major + 1, U64_MAX), Min(b.minor + 1, U64_MAX), 0>>
      [] b.kind = "PatchGreater" ->
           <<Min(b.major + 1, U64_MAX), Min(b.minor + 1, U64_MAX),
             Min(b.patch + 1, U64_MAX)>>

\* The upper triple C5 states for a Less variant: each given component
\* becomes max(x - 1, 0), the components not given are MAX.
C5_LessUpper(b) ==
    CASE b.kind = "MajorLess" -> <<Max(b.major - 1, 0), U64_MAX, U64_MAX>>
      [] b.kind = "MinorLess" ->
           <<Max(b.major - 1, 0), Max(b.minor - 1, 0), U64_MAX>>
      [] b.kind = "PatchLess" ->
           <<Max(b.major - 1, 0), Max(b.minor - 1, 0), Max(b.patch - 1, 0)>>

\* C5: normalisation never wraps.  In VersionReq::new and in the Compound
\* helpers a component incremented by a Greater variant becomes
\* min(x + 1, MAX) and a component decremented by a Less variant becomes
\* max(x - 1, 0); a standalone Less variant has an all-zero lower triple.
\* MajorGreater{MAX} has lower major MAX and MajorLess{0} has upper major 0.
C5_NormalizationSaturates ==
    Built =>
      /\ variant.kind \in GreaterKinds => Lower(req) = C5_GreaterLower(variant)
      /\ variant.kind \in LessKinds =>
           /\ Higher(req) = C5_LessUpper(variant)
           /\ Lower(req) = <<0, 0, 0>>
      /\ variant.kind = "Compound" =>
           /\ variant.lower.kind \in GreaterKinds =>
                Lower(req) = C5_GreaterLower(variant.lower)
           /\ variant.upper.kind \in LessKinds =>
                Higher(req) = C5_LessUpper(variant.upper)
      /\ variant = [kind |-> "MajorGreater", major |-> U64_MAX] =>
           req.major_lower = U64_MAX
      /\ variant = [kind |-> "MajorLess", major |-> 0] =>
           req.major_higher = 0

\* C5's case: a Compound whose lower half increments MAX and whose upper half
\* decrements 0 has been normalised.
C5_Witness ==
    /\ Built
    /\ variant.kind = "Compound"
    /\ variant.lower = [kind |-> "MajorGreater", major |-> U64_MAX]
    /\ variant.upper = [kind |-> "MajorLess", major |-> 0]
    /\ req.major_lower = U64_MAX
    /\ req.major_higher = 0

\* C8: STAR has the lower triple (0,0,0) and the upper triple (MAX,MAX,MAX),
\* and it matches every version.
C8_StarMatchesAll ==
    (Built /\ variant.kind = "STAR") =>
      /\ Lower(req) = <<0, 0, 0>>
      /\ Higher(req) = <<U64_MAX, U64_MAX, U64_MAX>>
      /\ pc = "matched" => matched = Bool(TRUE)

\* C8's case: STAR has been tested against the largest version.
C8_Witness ==
    /\ pc = "matched"
    /\ variant.kind = "STAR"
    /\ version = Version_new(U64_MAX, U64_MAX, U64_MAX)
    /\ matched = Bool(TRUE)

\* C9: the requirement built from Compound(L, U) has the lower triple of the
\* requirement built from the standalone variant of L's name and fields, and
\* the upper triple of the one built from the standalone variant of U's name
\* and fields; it matches a version exactly when both of those match it.
C9_CompoundAgreesWithStandalone ==
    (Built /\ variant.kind = "Compound") =>
      /\ Lower(req) = Lower(VersionReq_new(variant.lower))
      /\ Higher(req) = Higher(VersionReq_new(variant.upper))
      /\ pc = "matched" =>
           matched = Bool(/\ matches(VersionReq_new(variant.lower), version)
                          /\ matches(VersionReq_new(variant.upper), version))

\* C9's case: a Compound of a Greater and a Less variant, both with a minor
\* component, has matched a version.
C9_Witness ==
    /\ pc = "matched"
    /\ variant.kind = "Compound"
    /\ variant.lower.kind = "MinorGreater"
    /\ variant.upper.kind = "MinorLess"
    /\ matched = Bool(TRUE)

\* C10: the requirement built from PatchGreater{major, minor, patch} matches
\* a version exactly when the version is greater than
\* Version(major, minor, patch) in Version's ordering (">major.minor.patch").
C10_PatchGreaterIsOrderGreater ==
    (pc = "matched" /\ variant.kind = "PatchGreater") =>
        matched = Bool(cmp(version, Version_new(variant.major, variant.minor,
                                                variant.patch)) = Greater)

\* a before b in the lexicographic order of (major, minor, patch)
LexLess(a, b) ==
    \/ a.major < b.major
    \/ a.major = b.major /\ a.minor < b.minor
    \/ a.major = b.major /\ a.minor = b.minor /\ a.patch < b.patch

\* C7: the ordering of versions is the lexicographic order of
\* (major, minor, patch): exactly one of a < b, a == b, a > b holds, decided by
\* the first component that differs; cmp returns Equal exactly for equal
\* versions; and partial_cmp(a, b) is Some(cmp(a, b)).
C7_OrderingIsLexicographic ==
    /\ pc \in {"cmp", "partial_cmp", "compared"} =>
         /\ ord = (IF LexLess(version, other) THEN Less
                   ELSE IF LexLess(other, version) THEN Greater ELSE Equal)
         /\ ord = Equal <=> Triple(version) = Triple(other)
    /\ pc \in {"partial_cmp", "compared"} => pord = Some(ord)
    /\ pc = "compared" =>
         /\ Cardinality({k \in {"lt", "eq", "gt"} : rel[k]}) = 1
         /\ rel.lt <=> LexLess(version, other)
         /\ rel.gt <=> LexLess(other, version)
         /\ rel.eq <=> Triple(version) = Triple(other)

\* C7's case: two versions that differ in the patch component only have been
\* compared in every way.
C7_Witness ==
    /\ pc = "compared"
    /\ version.major = other.major
    /\ version.minor = other.minor
    /\ version.patch < other.patch
    /\ ord = Less
    /\ rel.lt

\* The positions of the separator in a string.
DotsOf(s) == {i \in 1..Len(s) : s[i] = "."}
\* The three fields of a string with exactly two separators.
FieldsOf(s) ==
    LET d1 == CHOOSE i \in DotsOf(s) : \A j \in DotsOf(s) : i <= j
        d2 == CHOOSE i \in DotsOf(s) : \A j \in DotsOf(s) : j <= i
    IN  <<SubSeq(s, 1, d1 - 1), SubSeq(s, d1 + 1, d2 - 1),
          SubSeq(s, d2 + 1, Len(s))>>
\* The value of a string of decimal digits.
RECURSIVE DecimalValue(_)
DecimalValue(f) ==
    IF f = <<>> THEN 0
    ELSE 10 * DecimalValue(SubSeq(f, 1, Len(f) - 1)) + to_digit(f[Len(f)])
\* A non-negative decimal integer of the u64 range: one digit or more
\* (leading zeros allowed), nothing else, no sign.
IsDecimalField(f) ==
    /\ f # <<>>
    /\ \A i \in 1..Len(f) : IsDigit(f[i])
    /\ DecimalValue(f) <= U64_MAX

\* C3: new_from_str accepts exactly the strings made of three non-negative
\* decimal integers separated by '.', with no whitespace, no sign and no
\* leading '+' (leading zeros allowed), and returns the version of the three
\* values; it rejects every other string.
C3_AcceptsExactlyStrictGrammar ==
    pc = "parsed" =>
      LET strict == /\ Cardinality(DotsOf(input)) = 2
                    /\ \A i \in 1..3 : IsDecimalField(FieldsOf(input)[i])
      IN  /\ parsed.kind = "Ok" <=> strict
          /\ strict => parsed = Ok(Version_new(DecimalValue(FieldsOf(input)[1]),
                                               DecimalValue(FieldsOf(input)[2]),
                                               DecimalValue(FieldsOf(input)[3])))

\* A string given in the examples, from its characters.
S_1_2 == <<"1", ".", "2">>
S_1_2_3_4 == <<"1", ".", "2", ".", "3", ".", "4">>
S_a_2 == <<"a", ".", "2">>
S_a_2_3 == <<"a", ".", "2", ".", "3">>
S_1_b_3 == <<"1", ".", "b", ".", "3">>
S_1_2_c == <<"1", ".", "2", ".", "c">>
S_a_b_3 == <<"a", ".", "b", ".", "3">>

C6_RoundTrip ==
    /\ (pc = "parsed" /\ rendered # None) =>
         /\ input = rendered
         /\ parsed = Ok(version)
    /\ rendered # None =>
         /\ Cardinality(DotsOf(rendered)) = 2
         /\ \A i \in 1..3 :
              LET f == FieldsOf(rendered)[i]
              IN  /\ IsDecimalField(f)
                  /\ DecimalValue(f) = Triple(version)[i]
                  /\ Len(f) > 1 => f[1] # "0"

\* C6's case: a version with a component of two digits, a zero component and
\* a component of one digit has been rendered and parsed back.
C6_Witness ==
    /\ pc = "parsed"
    /\ rendered # None
    /\ version.major >= 10
    /\ version.minor = 0
    /\ version.patch \in 1..9
    /\ version.major # version.patch
    /\ parsed = Ok(version)
====
